---- MODULE Spec2Model ----
(***************************************************************************)
(* Model of the Maven monthly-statistics accumulation store of             *)
(* get_stats.py (JavaPackageManager) and of the cross-platform aggregator  *)
(* calculate_total_downloads_for_table.                                    *)
(*                                                                         *)
(* The persisted artifact is a table (a bag of rows, as SQL tables are)    *)
(* with a column type for `downloads`; the CSV export is a sequence of     *)
(* cells; the clock is the value datetime.now() returns.                   *)
(***************************************************************************)
EXTENDS Bags, FiniteSets, Integers, Sequences, TLC

VARIABLES
    csv,      \* maven-stats-source/<package>.csv
    now,      \* the date datetime.now() returns
    parquet,  \* maven-stats-source/accumulation/<package>.parquet
    pre,      \* history: the artifact before the last call
    last,     \* history: the last call on the store and what it returned
    table,    \* history: what the last aggregator call returned
    main,     \* main(): where its loop over the constructs stands
    stores,   \* main(): the CSV export and the artifact of every construct
    runs,     \* concurrent runs of handle_maven_stats: position and tables
    writing,  \* the runs whose COPY to the artifact is under way
    seen      \* history: what check_parquet_file last observed

\* the state of the multi-construct pass and of the concurrent runs
rest == <<main, stores, runs, writing, seen>>

vars == <<csv, now, parquet, pre, last, table, main, stores, runs, writing, seen>>

----------------------------------------------------------------------------
(* Bounds *)

\* longest CSV export (rows) the model enumerates
MaxRows == 2

----------------------------------------------------------------------------
(* Calendar arithmetic: datetime, relativedelta, DuckDB DATE + INTERVAL *)

IsLeap(y) == (y % 4 = 0 /\ y % 100 # 0) \/ y % 400 = 0

DaysInMonth(y, m) ==
    IF m = 2 THEN (IF IsLeap(y) THEN 29 ELSE 28)
    ELSE IF m \in {4, 6, 9, 11} THEN 30 ELSE 31

MinInt(a, b) == IF a < b THEN a ELSE b

\* export_date - relativedelta(years=1): same month and day one year
\* earlier, the day clamped to the length of the target month
MinusOneYear(t) ==
    [y |-> t.y - 1, m |-> t.m, d |-> MinInt(t.d, DaysInMonth(t.y - 1, t.m))]

\* characters are their code points: '0'..'9' = 48..57, '-' = 45
Digit(n) == 48 + n
Dash == 45

Pad2(n) == <<Digit(n \div 10), Digit(n % 10)>>
Pad4(n) == <<Digit(n \div 1000), Digit((n \div 100) % 10),
             Digit((n \div 10) % 10), Digit(n % 10)>>

\* datetime.strftime("%Y-%m-%d")
StrftimeYmd(t) == Pad4(t.y) \o <<Dash>> \o Pad2(t.m) \o <<Dash>> \o Pad2(t.d)

Num(s, from, to) ==
    LET RECURSIVE N(_, _)
        N(i, acc) == IF i > to THEN acc ELSE N(i + 1, acc * 10 + (s[i] - 48))
    IN N(from, 0)

\* DuckDB DATE 'YYYY-MM-DD' literal
DateLiteral(s) == [y |-> Num(s, 1, 4), m |-> Num(s, 6, 7), d |-> Num(s, 9, 10)]

\* variant: the month wraps to 1 after 12 but the year is not carried
AddMonths_NoCarry(t, n) ==
    LET mm == ((t.m - 1 + n) % 12) + 1
    IN [y |-> t.y, m |-> mm, d |-> MinInt(t.d, DaysInMonth(t.y, mm))]

\* variant: the day is not clamped; a day past the end of the month runs
\* over into the next month
AddMonths_DayOverflow(t, n) ==
    LET k  == t.y * 12 + (t.m - 1) + n
        yy == k \div 12
        mm == (k % 12) + 1
        k2 == k + 1
    IN IF t.d <= DaysInMonth(yy, mm)
       THEN [y |-> yy, m |-> mm, d |-> t.d]
       ELSE [y |-> k2 \div 12, m |-> (k2 % 12) + 1, d |-> t.d - DaysInMonth(yy, mm)]

\* DuckDB date + INTERVAL n MONTH: months are added to the (year, month)
\* pair and the day is clamped to the last day of the resulting month
AddMonths(t, n) ==
    LET k  == t.y * 12 + (t.m - 1) + n
        yy == k \div 12
        mm == (k % 12) + 1
    IN [y |-> yy, m |-> mm, d |-> MinInt(t.d, DaysInMonth(yy, mm))]

\* DuckDB strftime(date, '%Y-%m')
StrftimeYm(t) == Pad4(t.y) \o <<Dash>> \o Pad2(t.m)

\* lexicographic comparison of two strings (VARCHAR ordering), a < b
RECURSIVE StrLess(_, _)
StrLess(a, b) ==
    IF b = <<>> THEN FALSE
    ELSE IF a = <<>> THEN TRUE
    ELSE IF Head(a) # Head(b) THEN Head(a) < Head(b)
    ELSE StrLess(Tail(a), Tail(b))

----------------------------------------------------------------------------
(* CSV export and table values *)

\* A cell is the token of one CSV row. The column type of the table that
\* holds it (dtype) says how it is stored: an integer token in a VARCHAR
\* column is its decimal text.
IntCell(n) == [numeric |-> TRUE, v |-> n]
\* a row that is not a number
TextCell == [numeric |-> FALSE, v |-> 0]

\* the rows a CSV export holds in the model: counts, a negative number, text
Cells == {IntCell(n) : n \in {-1, 0, 1}} \cup {TextCell}

SeqsUpTo(S, n) == UNION {[1 .. k -> S] : k \in 1 .. n}

\* maven-stats-source/<package>.csv : missing/unreadable, or its rows
NoCsv == [readable |-> FALSE, rows |-> <<>>]
CsvFiles == {NoCsv} \cup {[readable |-> TRUE, rows |-> r] : r \in SeqsUpTo(Cells, MaxRows)}

\* the values datetime.now() takes in the model
NowDates == { [y |-> 2023, m |-> 12, d |-> 31],
              [y |-> 2024, m |-> 1,  d |-> 31] }

DateLeq(a, b) == <<a.y, a.m, a.d>> = <<b.y, b.m, b.d>>
                 \/ a.y < b.y
                 \/ (a.y = b.y /\ a.m < b.m)
                 \/ (a.y = b.y /\ a.m = b.m /\ a.d < b.d)

\* read_csv_auto type detection of column0
SniffType(rows) ==
    IF \A i \in DOMAIN rows : rows[i].numeric THEN "BIGINT" ELSE "VARCHAR"

Absent == [exists |-> FALSE, dtype |-> "BIGINT", rows |-> EmptyBag]

\* start_month_str of handle_maven_stats
StartMonthStr(t) == StrftimeYmd(MinusOneYear(t))

\* variant: every row is labelled with the start month
YearMonth_NoOffset(t, i) == StrftimeYm(DateLiteral(StartMonthStr(t)))

\* year_month of CSV row i (1-based ROW_NUMBER)
YearMonth(t, i) == StrftimeYm(AddMonths(DateLiteral(StartMonthStr(t)), i - 1))

\* CREATE TABLE updated_stats AS SELECT column0 AS downloads, strftime(...)
TransformedTable(c, t) ==
    [dtype |-> SniffType(c.rows),
     rows  |-> SetToBag({[downloads |-> c.rows[i], year_month |-> YearMonth(t, i)]
                          : i \in DOMAIN c.rows})]

Months(bag) == {r.year_month : r \in BagToSet(bag)}

\* variant: nothing is deleted before the insert
DeleteOverlap_NoDelete(existing, batch) == existing

\* variant: the rows are matched on downloads instead of year_month
DeleteOverlap_WrongKey(existing, batch) ==
    LET keep == {r \in BagToSet(existing) :
                    r.downloads \notin {b.downloads : b \in BagToSet(batch)}}
    IN [r \in keep |-> existing[r]]

\* variant: DELETE without its WHERE clause
DeleteOverlap_All(existing, batch) == EmptyBag

\* DELETE FROM existing_stats WHERE year_month IN (SELECT year_month FROM updated_stats)
DeleteOverlap(existing, batch) ==
    LET keep == {r \in BagToSet(existing) : r.year_month \notin Months(batch)}
    IN [r \in keep |-> existing[r]]

\* INSERT INTO existing_stats SELECT * FROM updated_stats
InsertInto(existing, batch) == existing (+) batch

\* variant: without an artifact nothing is written
HandleOutcome_NoCreate(pq, c, t) ==
    IF ~c.readable
    THEN [raised |-> TRUE, error |-> "IOException", file |-> pq]
    ELSE LET batch == TransformedTable(c, t)
         IN IF pq.exists
            THEN IF pq.dtype = "BIGINT" /\ batch.dtype = "VARCHAR"
                 THEN [raised |-> TRUE, error |-> "ConversionException", file |-> pq]
                 ELSE [raised |-> FALSE, error |-> "",
                       file |-> [exists |-> TRUE, dtype |-> pq.dtype,
                                 rows |-> InsertInto(DeleteOverlap(pq.rows, batch.rows),
                                                     batch.rows)]]
            ELSE [raised |-> FALSE, error |-> "", file |-> pq]

\* the statements of handle_maven_stats: the file it leaves and whether it
\* raised. An unreadable CSV fails read_csv_auto; text rows inserted into a
\* BIGINT downloads column fail the implicit cast of the INSERT; both happen
\* before any COPY, so the file is as it was.
HandleOutcome(pq, c, t) ==
    IF ~c.readable
    THEN [raised |-> TRUE, error |-> "IOException", file |-> pq]
    ELSE LET batch == TransformedTable(c, t)
         IN IF pq.exists
            THEN IF pq.dtype = "BIGINT" /\ batch.dtype = "VARCHAR"
                 THEN [raised |-> TRUE, error |-> "ConversionException", file |-> pq]
                 ELSE [raised |-> FALSE, error |-> "",
                       file |-> [exists |-> TRUE, dtype |-> pq.dtype,
                                 rows |-> InsertInto(DeleteOverlap(pq.rows, batch.rows),
                                                     batch.rows)]]
            ELSE [raised |-> FALSE, error |-> "",
                  file |-> [exists |-> TRUE, dtype |-> batch.dtype, rows |-> batch.rows]]

\* SUM(downloads) over a BIGINT column
SumDownloads(bag) ==
    LET RECURSIVE S(_)
        S(rs) == IF rs = {} THEN 0
                 ELSE LET r == CHOOSE x \in rs : TRUE
                      IN r.downloads.v * bag[r] + S(rs \ {r})
    IN S(BagToSet(bag))

\* MIN(year_month)
MinYearMonth(bag) ==
    CHOOSE m \in Months(bag) : \A o \in Months(bag) : o = m \/ StrLess(m, o)

NoCall == [op |-> "none", raised |-> FALSE, result |-> 0, start_date |-> <<>>]

\* the query and return paths of get_downloads after handle_maven_stats
QueryOutcome(pq) ==
    IF ~pq.exists
    THEN [op |-> "get_downloads", raised |-> FALSE, result |-> 0, start_date |-> <<>>]
    ELSE IF pq.dtype = "VARCHAR"
    THEN \* SUM(VARCHAR) does not bind: caught by the except clause
         [op |-> "get_downloads", raised |-> FALSE, result |-> 0, start_date |-> <<>>]
    ELSE IF pq.rows = EmptyBag
    THEN [op |-> "get_downloads", raised |-> FALSE, result |-> 0, start_date |-> <<>>]
    ELSE [op |-> "get_downloads", raised |-> FALSE,
          result |-> SumDownloads(pq.rows), start_date |-> MinYearMonth(pq.rows)]

----------------------------------------------------------------------------
(* Platform clients: what each returns for the response it gets *)

\* the answers an endpoint gives in the model: served with a count, or not
NotServed == [status |-> 404, count |-> 0]
Served(n) == [status |-> 200, count |-> n]

NpmResponses == {NotServed, Served(1)}
PyPiResponses == {NotServed, Served(2)}
NugetResponses == {NotServed, Served(4)}
GoResponses == {NotServed, Served(8)}
CloneResponses == {NotServed, Served(16)}

\* NpmPackageManager.get_downloads: the sum of the daily downloads, or 0
NpmGetDownloads(resp) == IF resp.status = 200 THEN resp.count ELSE 0

\* PyPiPackageManager.get_downloads: total_downloads, or 0
PyPiGetDownloads(resp) == IF resp.status = 200 THEN resp.count ELSE 0

\* NugetPackageManager.get_downloads: 0 when no earliest date was found
\* or the package page is not served
NugetGetDownloads(hasDate, resp) ==
    IF ~hasDate THEN 0
    ELSE IF resp.status = 200 THEN resp.count ELSE 0

None == [none |-> TRUE, v |-> 0]
Some(n) == [none |-> FALSE, v |-> n]

\* GoPackageManager.get_import_count: the count, or None when the page is
\* not served or has no 'Imported By' element
GetImportCount(resp, found) ==
    IF resp.status = 200 /\ found THEN Some(resp.count) ELSE None

\* GoPackageManager.get_github_clone_count: the clone count, or 0
GetGithubCloneCount(resp) == IF resp.status = 200 THEN resp.count ELSE 0

NoTable == [called |-> FALSE, raised |-> FALSE, error |-> "", total |-> 0,
            npm |-> 0, pypi |-> 0, java |-> 0, nuget |-> 0, go |-> 0]

\* what calculate_total_downloads_for_table returns, or how it ends, given
\* the outcome o of handle_maven_stats, the query outcome q and the values
\* the other platform clients returned
TableOutcome(o, q, npm, pypi, nuget, import, clones) ==
    IF o.raised
    THEN \* java_manager.get_downloads() raised: nothing catches it
         [NoTable EXCEPT !.called = TRUE, !.raised = TRUE,
                         !.error = o.error, !.npm = npm, !.pypi = pypi]
    ELSE IF import.none
    THEN \* None + int
         [NoTable EXCEPT !.called = TRUE, !.raised = TRUE,
                         !.error = "TypeError", !.npm = npm,
                         !.pypi = pypi, !.java = q.result,
                         !.nuget = nuget]
    ELSE [called |-> TRUE, raised |-> FALSE, error |-> "",
          total |-> npm + pypi + q.result + nuget + (import.v + clones),
          npm |-> npm, pypi |-> pypi, java |-> q.result,
          nuget |-> nuget, go |-> import.v + clones]

----------------------------------------------------------------------------
(* The multi-construct pass and concurrent runs: initial values *)

\* the constructs list of main()
Constructs == <<"cdk-comprehend-s3olap", "cdk-lambda-subminute",
                "cdk-emrserverless-with-delta-lake", "cdk-databrew-cicd",
                "projen-statemachine">>

ConstructNames == {Constructs[k] : k \in DOMAIN Constructs}

\* main() not started: total_downloads_data = {}
NoMain == [pc |-> "idle", i |-> 1, data |-> <<>>]

\* two invocations of the script on the same construct
Procs == {1, 2}

NoTableRead == [exists |-> FALSE, dtype |-> "BIGINT", rows |-> EmptyBag]

NoRun == [pc |-> "idle", batch |-> NoTableRead, merged |-> NoTableRead]

\* no pass of main() and no concurrent run under way
RestInit ==
    /\ main = NoMain
    /\ stores = <<>>
    /\ runs = <<>>
    /\ writing = {}
    /\ seen = "nothing"

----------------------------------------------------------------------------
(* State machine *)

Init ==
    /\ csv = NoCsv
    /\ now \in NowDates
    /\ parquet = Absent
    /\ pre = Absent
    /\ last = NoCall
    /\ table = NoTable
    /\ RestInit

\* a new CSV export is dropped into maven-stats-source/
ExportCsv ==
    /\ \E c \in CsvFiles : c # csv /\ csv' = c
    /\ pre' = parquet
    /\ last' = NoCall
    /\ table' = NoTable
    /\ UNCHANGED <<now, parquet>>
    /\ UNCHANGED rest

\* time passes
Tick ==
    /\ \E t \in NowDates : t # now /\ DateLeq(now, t) /\ now' = t
    /\ pre' = parquet
    /\ last' = NoCall
    /\ table' = NoTable
    /\ UNCHANGED <<csv, parquet>>
    /\ UNCHANGED rest

\* JavaPackageManager.handle_maven_stats()
HandleMavenStats ==
    \E o \in {HandleOutcome(parquet, csv, now)} :
       /\ parquet' = o.file
       /\ pre' = parquet
       /\ last' = [op |-> "handle_maven_stats", raised |-> o.raised,
                   result |-> 0, start_date |-> <<>>]
       /\ UNCHANGED <<csv, now, table>>
       /\ UNCHANGED rest

\* JavaPackageManager.get_downloads()
GetDownloads ==
    \E o \in {HandleOutcome(parquet, csv, now)} :
       /\ parquet' = o.file
       /\ pre' = parquet
       /\ last' = IF o.raised
                  THEN [op |-> "get_downloads", raised |-> TRUE,
                        result |-> 0, start_date |-> <<>>]
                  ELSE QueryOutcome(o.file)
       /\ UNCHANGED <<csv, now, table>>
       /\ UNCHANGED rest

\* calculate_total_downloads_for_table(construct_name)
CalculateTotalDownloadsForTable ==
    \E o \in {HandleOutcome(parquet, csv, now)} :
    \E q \in {QueryOutcome(o.file)} :
    \E npmResp \in NpmResponses, pypiResp \in PyPiResponses,
       nugetResp \in NugetResponses, goResp \in GoResponses,
       cloneResp \in CloneResponses, nugetHasDate \in BOOLEAN,
       goFound \in BOOLEAN :
    LET npm    == NpmGetDownloads(npmResp)
        pypi   == PyPiGetDownloads(pypiResp)
        nuget  == NugetGetDownloads(nugetHasDate, nugetResp)
        import == GetImportCount(goResp, goFound)
        clones == GetGithubCloneCount(cloneResp)
    IN /\ parquet' = o.file
       /\ pre' = parquet
       /\ last' = IF o.raised
                  THEN [op |-> "get_downloads", raised |-> TRUE,
                        result |-> 0, start_date |-> <<>>]
                  ELSE q
       /\ table' = TableOutcome(o, q, npm, pypi, nuget, import, clones)
       /\ UNCHANGED <<csv, now>>
       /\ UNCHANGED rest

Next == ExportCsv \/ Tick \/ HandleMavenStats \/ GetDownloads

Spec == Init /\ [][Next]_vars

\* Batch building alone: one creation of the artifact from any CSV export
\* on any run date
AllDates == {t \in [y : {2024, 2025}, m : 1 .. 12, d : 1 .. 31] :
                t.d <= DaysInMonth(t.y, t.m)}

InitBatch ==
    /\ csv \in CsvFiles \ {NoCsv}
    /\ now \in AllDates
    /\ parquet = Absent
    /\ pre = Absent
    /\ last = NoCall
    /\ table = NoTable
    /\ RestInit

NextBatch == HandleMavenStats

SpecBatch == InitBatch /\ [][NextBatch]_vars

\* The aggregator over one construct, whatever CSV export is in place
InitTable ==
    /\ csv \in CsvFiles
    /\ now \in NowDates
    /\ parquet = Absent
    /\ pre = Absent
    /\ last = NoCall
    /\ table = NoTable
    /\ RestInit

NextTable == Tick \/ CalculateTotalDownloadsForTable

SpecTable == InitTable /\ [][NextTable]_vars

----------------------------------------------------------------------------
(* main(): the pass over the constructs list *)

\* the CSV exports a construct has in this pass: none, or one good row
MainCsvFiles == {NoCsv, [readable |-> TRUE, rows |-> <<IntCell(1)>>]}

InitMain ==
    /\ csv = NoCsv
    /\ now \in NowDates
    /\ parquet = Absent
    /\ pre = Absent
    /\ last = NoCall
    /\ table = NoTable
    /\ main = NoMain
    /\ stores \in [ConstructNames -> {[csv |-> c, parquet |-> Absent] : c \in MainCsvFiles}]
    /\ runs = <<>>
    /\ writing = {}
    /\ seen = "nothing"

\* one iteration of the for loop of main(): the call of
\* calculate_total_downloads_for_table for the next construct. An exception
\* of the call leaves main(); the NuGet, PyPI and GitHub endpoints answer.
MainIteration ==
    /\ main.pc \in {"idle", "loop"}
    /\ main.i <= Len(Constructs)
    /\ LET c == Constructs[main.i]
       IN \E o \in {HandleOutcome(stores[c].parquet, stores[c].csv, now)} :
          \E q \in {QueryOutcome(o.file)} :
          \E npmResp \in NpmResponses, goResp \in GoResponses, goFound \in BOOLEAN :
          \E t \in {TableOutcome(o, q, NpmGetDownloads(npmResp),
                                  PyPiGetDownloads(Served(2)),
                                  NugetGetDownloads(TRUE, Served(4)),
                                  GetImportCount(goResp, goFound),
                                  GetGithubCloneCount(Served(16)))} :
             /\ stores' = [stores EXCEPT ![c].parquet = o.file]
             /\ main' = IF t.raised
                        THEN [main EXCEPT !.pc = "aborted"]
                        ELSE [pc |-> "loop", i |-> main.i + 1,
                              data |-> (c :> t) @@ main.data]
    /\ UNCHANGED <<csv, now, parquet, pre, last, table, runs, writing, seen>>

\* the end of main(): the totals, create_markdown_table and the last print
MainReport ==
    /\ main.pc \in {"idle", "loop"}
    /\ main.i > Len(Constructs)
    /\ main' = [main EXCEPT !.pc = "done"]
    /\ UNCHANGED <<csv, now, parquet, pre, last, table, stores, runs, writing, seen>>

NextMain == MainIteration \/ MainReport

SpecMain == InitMain /\ [][NextMain]_vars

----------------------------------------------------------------------------
(* Two concurrent runs of handle_maven_stats on one construct, statement by
   statement, and a reader of the artifact *)

InitConc ==
    /\ csv \in CsvFiles \ {NoCsv}
    /\ now \in NowDates
    /\ parquet = Absent
    /\ pre = Absent
    /\ last = NoCall
    /\ table = NoTable
    /\ main = NoMain
    /\ stores = <<>>
    /\ runs = [p \in Procs |-> NoRun]
    /\ writing = {}
    /\ seen = "nothing"

\* lines 199-215: the CSV is read and labelled into updated_stats
RunTransform(p) ==
    /\ runs[p].pc = "idle"
    /\ runs' = [runs EXCEPT ![p] =
                  IF csv.readable
                  THEN [pc |-> "transformed", batch |-> TransformedTable(csv, now),
                        merged |-> NoTableRead]
                  ELSE [NoRun EXCEPT !.pc = "raised"]]
    /\ UNCHANGED <<csv, now, parquet, pre, last, table, main, stores, writing, seen>>

\* line 219: os.path.exists(parquet_file)
RunExists(p) ==
    /\ runs[p].pc = "transformed"
    /\ runs' = [runs EXCEPT ![p] =
                  IF parquet.exists
                  THEN [@ EXCEPT !.pc = "exists"]
                  ELSE [@ EXCEPT !.pc = "create",
                                 !.merged = [exists |-> TRUE, dtype |-> runs[p].batch.dtype,
                                             rows |-> runs[p].batch.rows]]]
    /\ UNCHANGED <<csv, now, parquet, pre, last, table, main, stores, writing, seen>>

\* lines 220-226: read_parquet into existing_stats, DELETE, INSERT. A file
\* whose COPY is under way cannot be read; text rows do not cast to BIGINT.
RunLoad(p) ==
    /\ runs[p].pc = "exists"
    /\ runs' = [runs EXCEPT ![p] =
                  IF writing # {}
                     \/ (parquet.dtype = "BIGINT" /\ runs[p].batch.dtype = "VARCHAR")
                  THEN [@ EXCEPT !.pc = "raised"]
                  ELSE [@ EXCEPT !.pc = "merged",
                                 !.merged = [exists |-> TRUE, dtype |-> parquet.dtype,
                                             rows |-> InsertInto(
                                                 DeleteOverlap(parquet.rows, runs[p].batch.rows),
                                                 runs[p].batch.rows)]]]
    /\ UNCHANGED <<csv, now, parquet, pre, last, table, main, stores, writing, seen>>

\* lines 227-233: COPY ... TO parquet_file starts writing the target path
RunCopyBegin(p) ==
    /\ runs[p].pc \in {"create", "merged"}
    /\ runs' = [runs EXCEPT ![p].pc = "copying"]
    /\ writing' = writing \cup {p}
    /\ parquet' = [parquet EXCEPT !.exists = TRUE]
    /\ UNCHANGED <<csv, now, pre, last, table, main, stores, seen>>

\* the COPY started by RunCopyBegin completes: the file is the run's table
RunCopyEnd(p) ==
    /\ runs[p].pc = "copying"
    /\ runs' = [runs EXCEPT ![p].pc = "done"]
    /\ writing' = writing \ {p}
    /\ parquet' = runs[p].merged
    /\ UNCHANGED <<csv, now, pre, last, table, main, stores, seen>>

\* lines 227-229: COPY over a file that exists, where DuckDB writes a
\* temporary file and moves it over the target
RunCopyReplace(p) ==
    /\ runs[p].pc \in {"create", "merged"}
    /\ parquet.exists
    /\ writing = {}
    /\ runs' = [runs EXCEPT ![p].pc = "done"]
    /\ parquet' = runs[p].merged
    /\ UNCHANGED <<csv, now, pre, last, table, main, stores, writing, seen>>

\* check_parquet_file(package_name)
CheckParquetFile ==
    /\ seen' = IF ~parquet.exists THEN "absent"
               ELSE IF writing # {} THEN "partial"
               ELSE "complete"
    /\ UNCHANGED <<csv, now, parquet, pre, last, table, main, stores, runs, writing>>

NextConc ==
    \/ Tick
    \/ CheckParquetFile
    \/ \E p \in Procs :
          \/ RunTransform(p)
          \/ RunExists(p)
          \/ RunLoad(p)
          \/ RunCopyBegin(p)
          \/ RunCopyEnd(p)
          \/ RunCopyReplace(p)

SpecConc == InitConc /\ [][NextConc]_vars

----------------------------------------------------------------------------
(* Properties *)

\* the batch the last call of handle_maven_stats built
Batch == TransformedTable(csv, now).rows

Merged == last.op = "handle_maven_stats" /\ ~last.raised

\* the run dates of the month of t
DaysOfMonth(t) == {[y |-> t.y, m |-> t.m, d |-> dd] : dd \in 1 .. DaysInMonth(t.y, t.m)}

SameStartMonth(t, u) == StrftimeYm(MinusOneYear(t)) = StrftimeYm(MinusOneYear(u))

RowsOfMonth(bag, m) == {r \in BagToSet(bag) : r.year_month = m}

\* C1: merge is idempotent. After handle_maven_stats has merged the CSV into
\* the series (absent or present), running it again on the same CSV with the
\* same start month (on any day of the run month) neither raises nor changes
\* the persisted series in any row.
Thm_C1 ==
    Merged =>
        \A t \in DaysOfMonth(now) :
            /\ SameStartMonth(t, now)
            /\ \A again \in {HandleOutcome(parquet, csv, t)} :
                    ~again.raised /\ again.file = parquet

Wit_C1 ==
    /\ Merged
    /\ pre.exists
    /\ parquet # pre
    /\ Months(pre.rows) \cap Months(Batch) # {}
    /\ Months(pre.rows) \ Months(Batch) # {}
    /\ Len(csv.rows) = MaxRows

\* C2: last writer wins on overlap. After a merge into an existing series,
\* every month of the batch that the existing series also held has exactly
\* one row in the merged series, and that row is the batch's row.
Thm_C2 ==
    (Merged /\ pre.exists) =>
        \A r \in BagToSet(Batch) :
            r.year_month \in Months(pre.rows) =>
                /\ RowsOfMonth(parquet.rows, r.year_month) = {r}
                /\ CopiesIn(r, parquet.rows) = 1

Wit_C2 ==
    /\ Merged
    /\ pre.exists
    /\ \E r \in BagToSet(Batch) : \E o \in BagToSet(pre.rows) :
            /\ o.year_month = r.year_month
            /\ o.downloads.numeric /\ r.downloads.numeric
            /\ o.downloads.v = 0 /\ r.downloads.v = 1

\* C3: merge is non-destructive outside the overlap. After a merge into an
\* existing series, every existing row whose month is not in the batch is in
\* the merged series as often as before, and the months of the merged series
\* are the existing months together with the batch months.
Thm_C3 ==
    (Merged /\ pre.exists) =>
        /\ \A o \in BagToSet(pre.rows) :
                o.year_month \notin Months(Batch) =>
                    /\ CopiesIn(o, parquet.rows) = CopiesIn(o, pre.rows)
                    /\ RowsOfMonth(parquet.rows, o.year_month)
                         = RowsOfMonth(pre.rows, o.year_month)
        /\ Months(parquet.rows) = Months(pre.rows) \cup Months(Batch)

Wit_C3 ==
    /\ Merged
    /\ pre.exists
    /\ Months(pre.rows) \ Months(Batch) # {}
    /\ Months(Batch) \ Months(pre.rows) # {}
    /\ Months(Batch) \cap Months(pre.rows) # {}

\* C4: uniqueness. In every state reached from an absent artifact the
\* persisted series holds at most one row per month.
Thm_C4 ==
    parquet.exists =>
        \A r \in BagToSet(parquet.rows) :
            /\ CopiesIn(r, parquet.rows) = 1
            /\ RowsOfMonth(parquet.rows, r.year_month) = {r}

Wit_C4 ==
    /\ Merged
    /\ pre.exists
    /\ Cardinality(Months(parquet.rows)) > MaxRows
    /\ Months(Batch) \cap Months(pre.rows) # {}

\* month (y, m) advanced by i calendar months, one month at a time
RECURSIVE MonthAfter(_, _, _)
MonthAfter(y, m, i) ==
    IF i = 0 THEN <<y, m>>
    ELSE IF m = 12 THEN MonthAfter(y + 1, 1, i - 1)
    ELSE MonthAfter(y, m + 1, i - 1)

IsLabelOf(s, ym) ==
    /\ Len(s) = 7
    /\ s[5] = Dash
    /\ \A k \in {1, 2, 3, 4, 6, 7} : s[k] \in 48 .. 57
    /\ Num(s, 1, 4) = ym[1]
    /\ Num(s, 6, 7) = ym[2]

\* C5: row-to-month mapping. The batch built from CSV rows r[1..n] on a run
\* whose start month is M (the run month one year earlier) has exactly n
\* rows; row i carries downloads r[i] and the YYYY-MM label of the month
\* M + (i - 1), the year rolling over after month 12.
Thm_C5 ==
    (Merged /\ ~pre.exists) =>
        LET n == Len(csv.rows)
        IN /\ BagCardinality(parquet.rows) = n
           /\ \A i \in 1 .. n :
                \E r \in BagToSet(parquet.rows) :
                    /\ r.downloads = csv.rows[i]
                    /\ IsLabelOf(r.year_month, MonthAfter(now.y - 1, now.m, i - 1))

Wit_C5 ==
    /\ Merged
    /\ ~pre.exists
    /\ Len(csv.rows) = MaxRows
    /\ now.m = 12 /\ now.d = 31
    /\ csv.rows[1] # csv.rows[2]

Queried == last.op = "get_downloads"

Malformed(cell) == ~cell.numeric \/ cell.v < 0

\* C6: aggregate correctness. Whenever get_downloads has run and the
\* persisted series is not empty, it returned the sum of downloads over all
\* rows, and the start date it found is the least month of the series.
CE_C6 ==
    (Queried /\ ~last.raised /\ parquet.exists /\ parquet.rows # EmptyBag) =>
        /\ last.result = SumDownloads(parquet.rows)
        /\ last.start_date = MinYearMonth(parquet.rows)

\* C7: absent store. get_downloads called for a construct with no persisted
\* artifact, or with an empty series, returns 0 and does not raise.
CE_C7 ==
    (Queried /\ (~pre.exists \/ pre.rows = EmptyBag)) =>
        (~last.raised /\ last.result = 0)

\* C8: malformed-row rejection. When the CSV holds a negative or non-numeric
\* row, handle_maven_stats raises and leaves the artifact as it was (none is
\* created when none existed).
CE_C8 ==
    (last.op = "handle_maven_stats" /\ csv.readable
        /\ \E i \in DOMAIN csv.rows : Malformed(csv.rows[i])) =>
        (last.raised /\ parquet = pre)

\* C9: non-negativity. Every row of the persisted series has a numeric
\* downloads value that is at least 0.
CE_C9 ==
    parquet.exists =>
        \A r \in BagToSet(parquet.rows) : r.downloads.numeric /\ r.downloads.v >= 0

\* C10: per-platform failure isolation. calculate_total_downloads_for_table
\* returns (it does not raise) whatever the platforms answer, and its total
\* is the sum of the per-platform contributions, a failed platform counting 0.
CE_C10 ==
    table.called =>
        /\ ~table.raised
        /\ table.total = table.npm + table.pypi + table.java + table.nuget + table.go

StoreCall == last.op \in {"handle_maven_stats", "get_downloads"}

\* C14: series lifecycle. An artifact that existed before a step exists
\* after it (nothing returns the series to Absent), and a call of
\* handle_maven_stats or get_downloads that did not raise leaves an artifact
\* in place: on an absent artifact it creates it.
Thm_C14 ==
    /\ pre.exists => parquet.exists
    /\ (StoreCall /\ ~last.raised) => parquet.exists

Wit_C14 ==
    /\ StoreCall
    /\ ~last.raised
    /\ ~pre.exists
    /\ parquet.exists
    /\ parquet.rows # EmptyBag

\* the number of the month a YYYY-MM label names, counted from year 0
MonthIndex(s) == Num(s, 1, 4) * 12 + (Num(s, 6, 7) - 1)

\* C15: start month. Row i of the CSV is labelled with the month
\* (run month - 12 + i), rows counted from 0, whatever the day of the run
\* date (29 February included); the labels of a batch are consecutive and
\* pairwise distinct.
Thm_C15 ==
    (Merged /\ ~pre.exists) =>
        /\ \A i \in 1 .. Len(csv.rows) :
              /\ MonthIndex(YearMonth(now, i))
                   = (now.y * 12 + (now.m - 1)) - 12 + (i - 1)
              /\ YearMonth(now, i) \in Months(parquet.rows)
              /\ \A t \in DaysOfMonth(now) : YearMonth(t, i) = YearMonth(now, i)
        /\ Cardinality(Months(parquet.rows)) = Len(csv.rows)

Wit_C15 ==
    /\ Merged
    /\ ~pre.exists
    /\ now = [y |-> 2024, m |-> 2, d |-> 29]
    /\ Len(csv.rows) = MaxRows

AllNumeric(bag) == \A r \in BagToSet(bag) : r.downloads.numeric

\* C16: get_downloads merges before it aggregates. After a call that did not
\* raise, the artifact is the merge of the current CSV into the prior
\* artifact, the returned total is the sum over that series (its rows being
\* numbers), and a second call with the same CSV and start month returns the
\* same total and leaves the artifact as it is.
CE_C16 ==
    (Queried /\ ~last.raised) =>
        /\ parquet = HandleOutcome(pre, csv, now).file
        /\ AllNumeric(parquet.rows) => last.result = SumDownloads(parquet.rows)
        /\ \A again \in {HandleOutcome(parquet, csv, now)} :
              /\ ~again.raised
              /\ again.file = parquet
              /\ QueryOutcome(again.file).result = last.result

\* C11: per-construct failure isolation. When main() ends, it ends with the
\* report and every construct of the list has been processed, whatever
\* failed for one of them.
CE_C11 ==
    (main.pc \in {"done", "aborted"}) =>
        /\ main.pc = "done"
        /\ DOMAIN main.data = ConstructNames

\* C12: no lost update. When both concurrent runs have persisted, the
\* series holds every month of both runs' batches.
CE_C12 ==
    (\A p \in Procs : runs[p].pc = "done") =>
        \A p \in Procs : Months(runs[p].batch.rows) \subseteq Months(parquet.rows)

\* C13: atomic persist. check_parquet_file never observes an artifact whose
\* write is under way.
CE_C13 == seen # "partial"

====
